---- MODULE Spec2Model ----
(***************************************************************************)
(* Sweep-window engine of the oscilloscope viewer (src/src/main.js, and    *)
(* its earlier snapshot src/unnamed/part_000, whose animate loop is the    *)
(* same code).                                                             *)
(*                                                                         *)
(* Numbers.  JavaScript numbers are modelled as exact rationals            *)
(* [n |-> numerator, d |-> denominator], d > 0, in lowest terms; d = 0 is   *)
(* NaN (what undefined * x yields).  Floating-point rounding and the       *)
(* Float32 rounding of the position buffers are not modelled.  Times of    *)
(* the host clock (requestAnimationFrame timestamps) are integers in       *)
(* milliseconds; sample and spike times are integers in milliseconds too   *)
(* (the code holds them in seconds).                                       *)
(*                                                                         *)
(* Scale.  SAMPLES_PER_SECOND, CHANNELS, FIRST_CHANNEL and LAST_CHANNEL    *)
(* are scaled down from the source values (30000, 385, 200, 300) so that a *)
(* sweep is 3 samples of 3 displayed channels; the decimal constants keep  *)
(* their source values as NUM / DEN.                                       *)
(***************************************************************************)
EXTENDS Integers, Sequences, FiniteSets, TLC

\* ---- configuration (main.js:5-16) ----
SAMPLES_PER_SECOND == 60
SWEEP_SPEED_FACTOR_NUM == 2
SWEEP_SPEED_FACTOR_DEN == 100
SWEEP_DURATION_NUM == 5
SWEEP_DURATION_DEN == 100
CHANNELS == 5
FIRST_CHANNEL == 1
LAST_CHANNEL == 3
PLOT_CHANNELS == LAST_CHANNEL - FIRST_CHANNEL + 1
AMPLITUDE_SCALE_FACTOR_NUM == 15
AMPLITUDE_SCALE_FACTOR_DEN == 10000000
MS_PER_SECOND == 1000

\* ---- bounds of the model ----
TimeStep == 500        \* grid of the host clock, in ms
MaxDtSteps == 2        \* a frame comes 1..MaxDtSteps grid steps after the last
LongDtSteps == 10      \* ... or after a long pause (background tab)
MaxLoadSteps == 1      \* a load takes 1..MaxLoadSteps grid steps
MaxTime == 11000       \* the host clock stops here
MaxSweeps == 3         \* a recording holds up to MaxSweeps whole sweeps
MaxHeight == 2         \* window.innerHeight is 1..MaxHeight
NumSpikes == 2         \* events in the spike files

\* ---- exact rational arithmetic for JavaScript numbers ----
RECURSIVE GCD(_, _)
GCD(a, b) == IF b = 0 THEN a ELSE GCD(b, a % b)

Abs(x) == IF x < 0 THEN -x ELSE x

NaN == [n |-> 0, d |-> 0]

Rat(n, d) ==
    IF d = 0 THEN NaN
    ELSE LET g == GCD(Abs(n), Abs(d))
             s == IF d < 0 THEN -1 ELSE 1
         IN  [n |-> (s * n) \div g, d |-> (s * d) \div g]

IsNaN(a) == a.d = 0
Num(i) == [n |-> i, d |-> 1]
RatAdd(a, b) == IF IsNaN(a) \/ IsNaN(b) THEN NaN ELSE Rat(a.n * b.d + b.n * a.d, a.d * b.d)
RatSub(a, b) == IF IsNaN(a) \/ IsNaN(b) THEN NaN ELSE Rat(a.n * b.d - b.n * a.d, a.d * b.d)
RatMul(a, b) == IF IsNaN(a) \/ IsNaN(b) THEN NaN ELSE Rat(a.n * b.n, a.d * b.d)
RatDiv(a, b) == IF IsNaN(a) \/ IsNaN(b) THEN NaN ELSE Rat(a.n * b.d, a.d * b.n)
\* comparisons with NaN are false, as in JavaScript
RatLt(a, b) == ~IsNaN(a) /\ ~IsNaN(b) /\ a.n * b.d < b.n * a.d
RatGt(a, b) == RatLt(b, a)
RatGe(a, b) == ~IsNaN(a) /\ ~IsNaN(b) /\ a.n * b.d >= b.n * a.d
RatFloor(a) == a.n \div a.d

SWEEP_SPEED_FACTOR == Rat(SWEEP_SPEED_FACTOR_NUM, SWEEP_SPEED_FACTOR_DEN)
SWEEP_DURATION == Rat(SWEEP_DURATION_NUM, SWEEP_DURATION_DEN)
AMPLITUDE_SCALE_FACTOR == Rat(AMPLITUDE_SCALE_FACTOR_NUM, AMPLITUDE_SCALE_FACTOR_DEN)

\* a time held in seconds by the code, given here in milliseconds
Seconds(ms) == Rat(ms, MS_PER_SECOND)

VARIABLES
    pc,                 \* where main() and the animation loop stand
    now,                \* host clock, ms since the page's time origin
    showSpikes,         \* URL switch
    viewHeight,         \* window.innerHeight as last read
    dataArray,          \* raw samples, 0-indexed
    totalSamples,
    spikeTimes,         \* 0-indexed, ms
    spikeChannels,      \* 0-indexed
    sampleTimes,        \* 0-indexed, ms
    spikeOverlayMesh,   \* [exists, ticks]: the overlay mesh and the ticks in its geometry
    lineMeshes,         \* 0-indexed: [actualChannel, yOffset, amplitudeScale, y]
    windowStartSample,
    sweepSampleCount,
    currentSample,
    lastTime,
    samplesRemaining,   \* local of animate, live while pc = "loop" (0 outside it)
    \* history variables, read by no action; those of a tick are cleared when it returns
    elapsed,            \* host-clock ms between the running tick and the one before
    dtTick,             \* dt of the running tick, ms
    consumed,           \* whole samples consumed since start
    windowStartAtTick,  \* windowStartSample when the running tick began
    lapsInTick,         \* laps completed by the running tick
    writes              \* per slot, writes since the lap began

vars == <<pc, now, showSpikes, viewHeight, dataArray, totalSamples, spikeTimes,
          spikeChannels, sampleTimes, spikeOverlayMesh, lineMeshes,
          windowStartSample, sweepSampleCount, currentSample, lastTime,
          samplesRemaining, elapsed, dtTick, consumed, windowStartAtTick,
          lapsInTick, writes>>

\* ---- typed arrays, 0-indexed ----
Length(a) == Cardinality(DOMAIN a)
EmptyArray == [i \in {} |-> 0]
\* an element read as a number: a read outside the array is undefined, NaN in arithmetic
Read(a, i) == IF i \in DOMAIN a THEN Num(a[i]) ELSE NaN
ReadSeconds(a, i) == IF i \in DOMAIN a THEN Seconds(a[i]) ELSE NaN

\* ---- loaded files (inputs) ----
\* the raw recording: an Int16 pattern over the flat index
SampleValue(i) == ((i * 3) % 5) - 2
SweepLength == RatFloor(RatMul(SWEEP_DURATION, Num(SAMPLES_PER_SECOND)))
\* flat lengths: an empty file, shorter than one sweep, MaxSweeps whole sweeps, and
\* a length that is no multiple of CHANNELS
TotalChoices ==
    { 0,
      (SweepLength - 1) * CHANNELS,
      MaxSweeps * SweepLength * CHANNELS,
      (MaxSweeps - 1) * SweepLength * CHANNELS + CHANNELS + 1 }
\* sample_times.bin: sample i is taken at i / SAMPLES_PER_SECOND seconds
SampleTimeAt(i) == (i * MS_PER_SECOND) \div SAMPLES_PER_SECOND
SampleTimesOfLength(n) == [i \in 0 .. n - 1 |-> SampleTimeAt(i)]
\* the events a spike file may hold, [time (ms), channel]: in the first sweep on the
\* first displayed channel, in the second sweep on the last displayed channel, and
\* in the first sweep on a channel outside the displayed range
SpikeChoices ==
    { [time |-> SampleTimeAt(1), channel |-> FIRST_CHANNEL],
      [time |-> SampleTimeAt(SweepLength + 1) + 1, channel |-> LAST_CHANNEL],
      [time |-> SampleTimeAt(1), channel |-> LAST_CHANNEL + 1] }
Heights == 1 .. MaxHeight

samplesPerChannel == Rat(totalSamples, CHANNELS)

\* ---- createPersistentLines ----
\* CreatePersistentLines reusing the position buffers of the lines it replaces
CreatePersistentLinesReusing(height, count) ==
    LET verticalSpacing == RatDiv(Num(height), Num(PLOT_CHANNELS - 1))
        amplitudeScale == RatMul(AMPLITUDE_SCALE_FACTOR, Num(height))
    IN  [i \in 0 .. PLOT_CHANNELS - 1 |->
            LET yOffset == RatMul(Num(i), verticalSpacing)
            IN  [actualChannel |-> FIRST_CHANNEL + i,
                 yOffset |-> yOffset,
                 amplitudeScale |-> amplitudeScale,
                 y |-> [j \in 0 .. count - 1 |->
                           IF i \in DOMAIN lineMeshes /\ j \in DOMAIN lineMeshes[i].y
                           THEN lineMeshes[i].y[j]
                           ELSE yOffset]]]

CreatePersistentLines(height, count) ==
    LET verticalSpacing == RatDiv(Num(height), Num(PLOT_CHANNELS - 1))
        amplitudeScale == RatMul(AMPLITUDE_SCALE_FACTOR, Num(height))
    IN  [i \in 0 .. PLOT_CHANNELS - 1 |->
            LET yOffset == RatMul(Num(i), verticalSpacing)
            IN  [actualChannel |-> FIRST_CHANNEL + i,
                 yOffset |-> yOffset,
                 amplitudeScale |-> amplitudeScale,
                 y |-> [j \in 0 .. count - 1 |-> yOffset]]]

\* ---- createSpikeOverlayMesh ----
CreateSpikeOverlayMesh == [exists |-> TRUE, ticks |-> <<>>]

\* ---- updateSpikeOverlay ----
\* ProjectFraction without the wrap of negative fractions
ProjectFractionNoWrap(spikeTime, startTime) ==
    RatDiv(RatSub(spikeTime, startTime), SWEEP_DURATION)

\* lines 242-243: the spike's place along the sweep, as a fraction of the view width
ProjectFraction(spikeTime, startTime) ==
    LET fraction == RatDiv(RatSub(spikeTime, startTime), SWEEP_DURATION)
    IN  IF RatLt(fraction, Num(0)) THEN RatAdd(fraction, Num(1)) ELSE fraction

\* SpikeTick without the test that the cursor has passed the spike
SpikeTickNoReveal(i) ==
    LET currentSampleAbs == windowStartSample + currentSample
        currentTime == ReadSeconds(sampleTimes, currentSampleAbs)
        startTime == ReadSeconds(sampleTimes, windowStartSample)
        endTime == ReadSeconds(sampleTimes, windowStartSample + sweepSampleCount - 1)
        overwriteTime == RatSub(currentTime, SWEEP_DURATION)
        spikeTime == ReadSeconds(spikeTimes, i)
        fraction == ProjectFraction(spikeTime, startTime)
        spikeCh == spikeChannels[i]
    IN  IF RatLt(spikeTime, overwriteTime) \/ RatGt(spikeTime, endTime) THEN <<>>
        ELSE IF spikeCh < FIRST_CHANNEL \/ spikeCh > LAST_CHANNEL THEN <<>>
        ELSE <<[spike |-> i, fraction |-> fraction, index |-> spikeCh - FIRST_CHANNEL]>>

\* the tick of spike i, or nothing when one of the loop's `continue`s skips it
\* (lines 233-250); a tick is drawn at (fraction * viewWidth, index * verticalSpacing)
SpikeTick(i) ==
    LET currentSampleAbs == windowStartSample + currentSample
        currentTime == ReadSeconds(sampleTimes, currentSampleAbs)
        startTime == ReadSeconds(sampleTimes, windowStartSample)
        endTime == ReadSeconds(sampleTimes, windowStartSample + sweepSampleCount - 1)
        overwriteTime == RatSub(currentTime, SWEEP_DURATION)
        spikeTime == ReadSeconds(spikeTimes, i)
        fraction == ProjectFraction(spikeTime, startTime)
        spikeCh == spikeChannels[i]
    IN  IF RatLt(spikeTime, overwriteTime) \/ RatGt(spikeTime, endTime) THEN <<>>
        ELSE IF RatGt(spikeTime, currentTime) THEN <<>>
        ELSE IF spikeCh < FIRST_CHANNEL \/ spikeCh > LAST_CHANNEL THEN <<>>
        ELSE <<[spike |-> i, fraction |-> fraction, index |-> spikeCh - FIRST_CHANNEL]>>

RECURSIVE SpikeTicksFrom(_)
SpikeTicksFrom(i) ==
    IF i >= Length(spikeTimes) THEN <<>> ELSE SpikeTick(i) \o SpikeTicksFrom(i + 1)

\* UpdateSpikeOverlay with the tick arrays kept across frames instead of rebuilt
UpdateSpikeOverlayAppend(mesh) ==
    IF Length(sampleTimes) < windowStartSample + sweepSampleCount THEN mesh
    ELSE [mesh EXCEPT !.ticks = mesh.ticks \o SpikeTicksFrom(0)]

UpdateSpikeOverlay(mesh) ==
    IF Length(sampleTimes) < windowStartSample + sweepSampleCount THEN mesh
    ELSE [mesh EXCEPT !.ticks = SpikeTicksFrom(0)]

\* ---- animate ----
\* NextWindowStart with the wrap taken modulo the recording length instead of to 0
NextWindowStartModulo(ws, count, perChannel) ==
    IF RatGt(Num(ws + count + count), perChannel)
    THEN IF RatFloor(perChannel) = 0 THEN 0 ELSE (ws + count) % RatFloor(perChannel)
    ELSE ws + count

\* NextWindowStart with the window clamped to the end of the recording
NextWindowStartClamp(ws, count, perChannel) ==
    IF RatGt(Num(ws + count + count), perChannel)
    THEN IF RatFloor(perChannel) >= count THEN RatFloor(perChannel) - count ELSE 0
    ELSE ws + count

\* the window start after a lap from start `ws` (lines 386-389)
NextWindowStart(ws, count, perChannel) ==
    IF RatGt(Num(ws + count + count), perChannel) THEN 0 ELSE ws + count

\* lines 365-369: dt, lastTime, samplesToAdvance
AnimateBeginSince(timestamp, last) ==
    LET dt == Rat(timestamp - last, MS_PER_SECOND)
        samplesToAdvance == RatMul(RatMul(Num(SAMPLES_PER_SECOND), dt), SWEEP_SPEED_FACTOR)
    IN  /\ lastTime' = timestamp
        /\ samplesRemaining' = samplesToAdvance
        /\ dtTick' = timestamp - last
        /\ pc' = "loop"
AnimateBegin(timestamp) == AnimateBeginSince(timestamp, lastTime)

\* main, lines 427-435: the sweep is set up and animate(0) is called
StartSweep(height) ==
    /\ sweepSampleCount' = SweepLength
    /\ windowStartSample' = 0
    /\ currentSample' = 0
    /\ lineMeshes' = CreatePersistentLines(height, SweepLength)
    /\ AnimateBegin(0)
    /\ elapsed' = 0
    /\ windowStartAtTick' = 0
    /\ lapsInTick' = 0
    /\ writes' = [j \in 0 .. SweepLength - 1 |-> 0]
    /\ UNCHANGED <<consumed, viewHeight>>

\* ---- state after the module's top level has run and main() awaits loadData ----
Init ==
    /\ pc = "loadData"
    /\ now = 0
    /\ showSpikes \in BOOLEAN
    /\ viewHeight \in Heights
    /\ dataArray = EmptyArray
    /\ totalSamples = 0
    /\ spikeTimes = EmptyArray
    /\ spikeChannels = EmptyArray
    /\ sampleTimes = EmptyArray
    /\ spikeOverlayMesh = [exists |-> FALSE, ticks |-> <<>>]
    /\ lineMeshes = EmptyArray
    /\ windowStartSample = 0
    /\ sweepSampleCount = 0
    /\ currentSample = 0
    /\ lastTime = 0
    /\ samplesRemaining = Num(0)
    /\ elapsed = 0
    /\ dtTick = 0
    /\ consumed = 0
    /\ windowStartAtTick = 0
    /\ lapsInTick = 0
    /\ writes = EmptyArray

\* loadData resolves with a file of `total` samples, `steps` grid steps later; main
\* goes on to loadSpikeData or, with no overlay, straight to the sweep and animate(0)
LoadData(total, steps) ==
    /\ pc = "loadData"
    /\ now' = now + steps * TimeStep
    /\ dataArray' = [i \in 0 .. total - 1 |-> SampleValue(i)]
    /\ totalSamples' = total
    /\ UNCHANGED <<showSpikes, spikeTimes, spikeChannels, sampleTimes, spikeOverlayMesh>>
    /\ IF showSpikes
       THEN /\ pc' = "loadSpikes"
            /\ UNCHANGED <<viewHeight, lineMeshes, windowStartSample, sweepSampleCount,
                           currentSample, lastTime, samplesRemaining, elapsed, dtTick,
                           consumed, windowStartAtTick, lapsInTick, writes>>
       ELSE StartSweep(viewHeight)

\* fetch or the typed-array constructor throws: main's promise rejects
LoadDataFail ==
    /\ pc = "loadData"
    /\ pc' = "failed"
    /\ UNCHANGED <<now, showSpikes, viewHeight, dataArray, totalSamples, spikeTimes,
                   spikeChannels, sampleTimes, spikeOverlayMesh, lineMeshes,
                   windowStartSample, sweepSampleCount, currentSample, lastTime,
                   samplesRemaining, elapsed, dtTick, consumed, windowStartAtTick,
                   lapsInTick, writes>>

\* loadSpikeData resolves; main creates the overlay mesh, sets up the sweep and
\* calls animate(0)
LoadSpikeData(events, tableLength, steps) ==
    /\ pc = "loadSpikes"
    /\ now' = now + steps * TimeStep
    /\ spikeTimes' = [i \in DOMAIN events |-> events[i].time]
    /\ spikeChannels' = [i \in DOMAIN events |-> events[i].channel]
    /\ sampleTimes' = SampleTimesOfLength(tableLength)
    /\ spikeOverlayMesh' = CreateSpikeOverlayMesh
    /\ UNCHANGED <<showSpikes, dataArray, totalSamples>>
    /\ StartSweep(viewHeight)

LoadSpikeDataFail ==
    /\ pc = "loadSpikes"
    /\ pc' = "failed"
    /\ UNCHANGED <<now, showSpikes, viewHeight, dataArray, totalSamples, spikeTimes,
                   spikeChannels, sampleTimes, spikeOverlayMesh, lineMeshes,
                   windowStartSample, sweepSampleCount, currentSample, lastTime,
                   samplesRemaining, elapsed, dtTick, consumed, windowStartAtTick,
                   lapsInTick, writes>>

\* the host calls animate(timestamp) for the next frame, `steps` grid steps after
\* the previous call
Frame(steps) ==
    /\ pc = "idle"
    /\ now + steps * TimeStep <= MaxTime
    /\ now' = now + steps * TimeStep
    /\ AnimateBegin(now')
    /\ elapsed' = steps * TimeStep
    /\ windowStartAtTick' = windowStartSample
    /\ lapsInTick' = 0
    /\ UNCHANGED <<showSpikes, viewHeight, dataArray, totalSamples, spikeTimes,
                   spikeChannels, sampleTimes, spikeOverlayMesh, lineMeshes,
                   windowStartSample, sweepSampleCount, currentSample, consumed, writes>>

\* WriteSlot reading the recording as sample-major within each channel
WriteSlotPlanar(obj, vertexIndex) ==
    LET dataIndex == obj.actualChannel * RatFloor(samplesPerChannel)
                     + (windowStartSample + vertexIndex)
        newData == RatMul(Read(dataArray, dataIndex), obj.amplitudeScale)
    IN  IF vertexIndex \in DOMAIN obj.y
        THEN [obj EXCEPT !.y[vertexIndex] = RatAdd(obj.yOffset, newData)]
        ELSE obj

\* WriteSlot starting every sweep on a cleared buffer
WriteSlotErasing(obj, vertexIndex) ==
    LET dataIndex == (windowStartSample + vertexIndex) * CHANNELS + obj.actualChannel
        newData == RatMul(Read(dataArray, dataIndex), obj.amplitudeScale)
        cleared == IF vertexIndex = 0
                   THEN [obj EXCEPT !.y = [j \in DOMAIN obj.y |-> obj.yOffset]]
                   ELSE obj
    IN  IF vertexIndex \in DOMAIN obj.y
        THEN [cleared EXCEPT !.y[vertexIndex] = RatAdd(obj.yOffset, newData)]
        ELSE obj

\* the slot written by one pass of the while loop (lines 372-379)
WriteSlot(obj, vertexIndex) ==
    LET dataIndex == (windowStartSample + vertexIndex) * CHANNELS + obj.actualChannel
        newData == RatMul(Read(dataArray, dataIndex), obj.amplitudeScale)
    IN  IF vertexIndex \in DOMAIN obj.y
        THEN [obj EXCEPT !.y[vertexIndex] = RatAdd(obj.yOffset, newData)]
        ELSE obj

\* SweepEnded off by one: the sweep ends only once the cursor is past the window
SweepEndedLate(sample, count) == sample > count

\* line 384: the cursor, just incremented, has reached the end of the window
SweepEnded(sample, count) == sample >= count

\* one pass of the while loop (lines 371-391); the count of passes is history
WhileBody ==
    /\ pc = "loop"
    /\ RatGe(samplesRemaining, Num(1))
    /\ LET vertexIndex == currentSample
           lap == SweepEnded(currentSample + 1, sweepSampleCount)
           landed == \A i \in DOMAIN lineMeshes : vertexIndex \in DOMAIN lineMeshes[i].y
       IN  /\ lineMeshes' = [i \in DOMAIN lineMeshes |-> WriteSlot(lineMeshes[i], vertexIndex)]
           /\ samplesRemaining' = RatSub(samplesRemaining, Num(1))
           /\ currentSample' = IF lap THEN 0 ELSE currentSample + 1
           /\ windowStartSample' =
                  IF lap
                  THEN NextWindowStart(windowStartSample, sweepSampleCount, samplesPerChannel)
                  ELSE windowStartSample
           /\ lapsInTick' = IF lap THEN lapsInTick + 1 ELSE lapsInTick
           /\ writes' = [j \in DOMAIN writes |->
                            (IF vertexIndex = 0 THEN 0 ELSE writes[j])
                            + (IF j = vertexIndex /\ landed THEN 1 ELSE 0)]
    /\ UNCHANGED <<pc, now, showSpikes, viewHeight, dataArray, totalSamples, spikeTimes,
                   spikeChannels, sampleTimes, spikeOverlayMesh, sweepSampleCount,
                   lastTime, elapsed, dtTick, windowStartAtTick>>

AdvanceSample == WhileBody /\ consumed' = consumed + 1

\* the rest of animate once the loop has ended (lines 393-409)
AnimateEnd ==
    /\ pc = "loop"
    /\ ~RatGe(samplesRemaining, Num(1))
    /\ spikeOverlayMesh' =
           IF showSpikes /\ spikeOverlayMesh.exists
           THEN UpdateSpikeOverlay(spikeOverlayMesh)
           ELSE spikeOverlayMesh
    /\ pc' = "idle"
    /\ samplesRemaining' = Num(0)
    /\ elapsed' = 0
    /\ dtTick' = 0
    /\ windowStartAtTick' = windowStartSample
    /\ lapsInTick' = 0
    /\ UNCHANGED <<now, showSpikes, viewHeight, dataArray, totalSamples, spikeTimes,
                   spikeChannels, sampleTimes, lineMeshes, windowStartSample,
                   sweepSampleCount, currentSample, lastTime, consumed, writes>>

\* onWindowResize: runs between two calls of animate, or while main awaits a load
Resize(height) ==
    /\ pc \in {"loadData", "loadSpikes", "idle", "failed"}
    /\ viewHeight' = height
    /\ lineMeshes' = CreatePersistentLines(height, sweepSampleCount)
    /\ spikeOverlayMesh' = IF showSpikes THEN CreateSpikeOverlayMesh ELSE spikeOverlayMesh
    /\ UNCHANGED <<pc, now, showSpikes, dataArray, totalSamples, spikeTimes, spikeChannels,
                   sampleTimes, windowStartSample, sweepSampleCount, currentSample,
                   lastTime, samplesRemaining, elapsed, dtTick, consumed,
                   windowStartAtTick, lapsInTick, writes>>

SpikeFiles == [0 .. NumSpikes - 1 -> SpikeChoices]
\* the sample-time table covers the recording, or stops one sample after the first sweep
TableLengths == {RatFloor(samplesPerChannel), SweepLength + 1}
FrameSteps == (1 .. MaxDtSteps) \cup {LongDtSteps}

Next ==
    \/ \E total \in TotalChoices, steps \in 1 .. MaxLoadSteps : LoadData(total, steps)
    \/ LoadDataFail
    \/ \E events \in SpikeFiles, n \in TableLengths, steps \in 1 .. MaxLoadSteps :
            LoadSpikeData(events, n, steps)
    \/ LoadSpikeDataFail
    \/ \E steps \in FrameSteps : Frame(steps)
    \/ AdvanceSample
    \/ AnimateEnd
    \/ \E height \in Heights : Resize(height)

Spec == Init /\ [][Next]_vars

\* ---- the program run without end ----
\* animate is entered by a host frame / animate returns
TickBegins == pc = "idle" /\ pc' = "loop"
TickEnds == pc = "loop" /\ pc' = "idle"

\* animate reads the host clock only as timestamp - lastTime, so every frame is taken
\* with the clock's origin moved to the previous call: the clock stays bounded over
\* any number of frames.  The count of consumed samples is not kept.
FrameRebased(steps) ==
    /\ pc = "idle"
    /\ now' = (now - lastTime) + steps * TimeStep
    /\ AnimateBeginSince(now', 0)
    /\ elapsed' = steps * TimeStep
    /\ windowStartAtTick' = windowStartSample
    /\ lapsInTick' = 0
    /\ UNCHANGED <<showSpikes, viewHeight, dataArray, totalSamples, spikeTimes,
                   spikeChannels, sampleTimes, spikeOverlayMesh, lineMeshes,
                   windowStartSample, sweepSampleCount, currentSample, consumed, writes>>

AdvanceSampleUncounted == WhileBody /\ UNCHANGED consumed

NextLive ==
    \/ \E total \in TotalChoices, steps \in 1 .. MaxLoadSteps : LoadData(total, steps)
    \/ LoadDataFail
    \/ \E events \in SpikeFiles, n \in TableLengths, steps \in 1 .. MaxLoadSteps :
            LoadSpikeData(events, n, steps)
    \/ LoadSpikeDataFail
    \/ \E steps \in FrameSteps : FrameRebased(steps)
    \/ AdvanceSampleUncounted
    \/ AnimateEnd
    \/ \E height \in Heights : Resize(height)

\* requestAnimationFrame (line 361) keeps scheduling animate, every frame a positive
\* time after the one before: main does not stay between two calls for ever.  A call
\* of animate runs to its end: main does not stay inside the loop for ever.
SpecLive ==
    /\ Init /\ [][NextLive]_vars
    /\ WF_pc(TickBegins)
    /\ WF_pc(TickEnds)

\* ---- properties ----
\* the while loop of the running tick has ended
TickDone == pc = "loop" /\ ~RatGe(samplesRemaining, Num(1))

\* C1 as stated: over every tick, windowStart does not decrease or is exactly 0
\* after the tick, ticks that span several laps included.
C1_TickMonotone ==
    TickDone => (windowStartSample >= windowStartAtTick \/ windowStartSample = 0)

\* C1 amended: over every whole-sample advance (so over every lap), and over every
\* tick that completes at most one lap, windowStart does not decrease or is
\* exactly 0 afterwards.
C1_LapMonotone ==
    [][/\ windowStartSample' >= windowStartSample \/ windowStartSample' = 0
       /\ (TickDone' /\ lapsInTick' <= 1) =>
              (windowStartSample' >= windowStartAtTick' \/ windowStartSample' = 0)]_vars

\* a tick of one lap has wrapped the window from a later block back to 0
C1_Witness ==
    TickDone /\ lapsInTick = 1 /\ windowStartAtTick > 0 /\ windowStartSample = 0

\* the sweep has been set up (main, lines 427-433)
Started == pc \in {"loop", "idle"}
\* the step is one pass of animate's while loop
Advanced == pc = "loop" /\ consumed' = consumed + 1

\* C2: once the sweep is set up, windowStart + length <= samplesPerChannel in every
\* state, whatever the size of the loaded recording.
C2_WindowBound ==
    Started => (windowStartSample + sweepSampleCount) * CHANNELS <= totalSamples

\* C3: the pass of the loop that brings the cursor to length sets the cursor to 0
\* and windowStart to windowStart + length when the block after that still fits in
\* the recording, and to exactly 0 otherwise; from windowStart 90 with length 30 and
\* 100 samples per channel the lap gives 0.
C3_LapTransition ==
    [][(Advanced /\ currentSample + 1 = sweepSampleCount) =>
           /\ currentSample' = 0
           /\ windowStartSample' =
                  IF (windowStartSample + 2 * sweepSampleCount) * CHANNELS <= totalSamples
                  THEN windowStartSample + sweepSampleCount
                  ELSE 0
           /\ NextWindowStart(90, 30, Num(100)) = 0]_vars

\* a lap has wrapped the window to 0 in a recording whose length is no multiple of
\* the channel count
C3_Witness ==
    /\ pc = "loop" /\ lapsInTick >= 1 /\ currentSample = 0
    /\ windowStartSample = 0 /\ windowStartAtTick > 0
    /\ totalSamples % CHANNELS # 0

\* C4: the cursor is the number of whole-sample advances modulo length, and the
\* slots written since the lap began are, once each, those below the cursor: after
\* length advances from a lap boundary every slot of every displayed channel has
\* been written exactly once and the cursor is 0 again.
C4_ExactLap ==
    Started =>
        /\ currentSample = consumed % sweepSampleCount
        /\ DOMAIN lineMeshes = 0 .. PLOT_CHANNELS - 1
        /\ \A j \in 0 .. sweepSampleCount - 1 :
               writes[j] = IF currentSample = 0
                           THEN (IF consumed = 0 THEN 0 ELSE 1)
                           ELSE (IF j < currentSample THEN 1 ELSE 0)

\* a lap is completed by a tick that advanced fewer samples than the lap holds
C4_Witness ==
    /\ TickDone /\ lapsInTick = 1 /\ currentSample = 0
    /\ dtTick <= MaxDtSteps * TimeStep
    /\ consumed >= 2 * sweepSampleCount
    /\ \A j \in 0 .. sweepSampleCount - 1 : writes[j] = 1

\* C5: between ticks, the whole samples consumed so far are
\* floor(samplingRate * speedFactor * total elapsed seconds), however the elapsed
\* time was split into ticks (lastTime is the sum of the ticks' dt).
C5_RemaindersAccumulate ==
    pc = "idle" =>
        consumed = RatFloor(RatMul(RatMul(Num(SAMPLES_PER_SECOND), Seconds(lastTime)),
                                   SWEEP_SPEED_FACTOR))

\* C6: the advance a tick computes is at most the advance that corresponds to the
\* host-clock time since the previous tick.
C6_NoSpuriousAdvance ==
    pc = "loop" =>
        SAMPLES_PER_SECOND * dtTick * SWEEP_SPEED_FACTOR_NUM
            <= SAMPLES_PER_SECOND * elapsed * SWEEP_SPEED_FACTOR_NUM

\* the step is the end of a frame on which the overlay is enabled; it leaves the
\* window, the cursor and the loaded arrays as they are
OverlayFrame == pc = "loop" /\ pc' = "idle" /\ showSpikes /\ spikeOverlayMesh.exists
\* the sample-time table covers the current window (line 216)
TableCoversWindow == Length(sampleTimes) >= windowStartSample + sweepSampleCount
\* the recording holds at least one sweep
RecordingHoldsSweep == sweepSampleCount * CHANNELS <= totalSamples
\* the events in the overlay's geometry
Rendered == {spikeOverlayMesh.ticks[k].spike : k \in DOMAIN spikeOverlayMesh.ticks}
\* the events the claim makes visible: displayed channel, and time between
\* currentTime - sweepDuration and currentTime (times in ms)
Visible ==
    LET at == windowStartSample + currentSample
    IN  {i \in DOMAIN spikeTimes :
            /\ at \in DOMAIN sampleTimes
            /\ FIRST_CHANNEL <= spikeChannels[i] /\ spikeChannels[i] <= LAST_CHANNEL
            /\ sampleTimes[at] * SWEEP_DURATION_DEN - MS_PER_SECOND * SWEEP_DURATION_NUM
                   <= spikeTimes[i] * SWEEP_DURATION_DEN
            /\ spikeTimes[i] <= sampleTimes[at]}

Range(ticks) == {ticks[k] : k \in DOMAIN ticks}

C9_Projection ==
    [][(OverlayFrame /\ TableCoversWindow) =>
           /\ \A k \in DOMAIN spikeOverlayMesh'.ticks :
                  LET t == spikeOverlayMesh'.ticks[k]
                      num == (spikeTimes[t.spike] - sampleTimes[windowStartSample'])
                             * SWEEP_DURATION_DEN
                      den == MS_PER_SECOND * SWEEP_DURATION_NUM
                  IN  t.fraction.n * den = (IF num < 0 THEN num + den ELSE num) * t.fraction.d
           /\ ProjectFraction(Seconds(9980), Seconds(10000)) = [n |-> 3, d |-> 5]]_vars

\* a rendered event is earlier than the window's start: its fraction is wrapped
C9_Witness ==
    /\ pc = "idle" /\ showSpikes /\ TableCoversWindow
    /\ \E k \in DOMAIN spikeOverlayMesh.ticks :
           /\ spikeTimes[spikeOverlayMesh.ticks[k].spike] < sampleTimes[windowStartSample]
           /\ RatGt(spikeOverlayMesh.ticks[k].fraction, Num(0))

\* C10: the baseline of displayed channel c is (c - firstChannel) * H /
\* (lastChannel - firstChannel), and a whole-sample advance at slot s stores
\* baseline(c) + v * amplitudeScaleFactor * H in slot s of channel c, v the raw
\* sample at flat offset (windowStart + s) * totalChannels + c.
C10_AmplitudeMapping ==
    [][/\ Started' =>
              \A i \in DOMAIN lineMeshes' :
                  LET obj == lineMeshes'[i]
                  IN  /\ obj.actualChannel = FIRST_CHANNEL + i
                      /\ obj.yOffset.d # 0
                      /\ obj.yOffset.n * (LAST_CHANNEL - FIRST_CHANNEL)
                             = i * viewHeight' * obj.yOffset.d
       /\ Advanced =>
              \A i \in DOMAIN lineMeshes :
                  LET c == FIRST_CHANNEL + i
                      s == currentSample
                      offset == (windowStartSample + s) * CHANNELS + c
                      baseline == Rat((c - FIRST_CHANNEL) * viewHeight,
                                      LAST_CHANNEL - FIRST_CHANNEL)
                  IN  lineMeshes'[i].y[s] =
                          IF offset \in DOMAIN dataArray
                          THEN RatAdd(baseline,
                                      Rat(dataArray[offset] * AMPLITUDE_SCALE_FACTOR_NUM * viewHeight,
                                          AMPLITUDE_SCALE_FACTOR_DEN))
                          ELSE NaN]_vars

\* in a later sweep a non-zero sample has been stored on the last displayed channel
\* of a view of extent MaxHeight
C10_Witness ==
    /\ Started /\ viewHeight = MaxHeight /\ windowStartSample > 0
    /\ \E s \in 0 .. sweepSampleCount - 1 :
           LET obj == lineMeshes[PLOT_CHANNELS - 1]
           IN  /\ obj.yOffset = Num(viewHeight)
               /\ ~IsNaN(obj.y[s])
               /\ obj.y[s] # obj.yOffset

\* the step is a run of onWindowResize: the only step that is outside animate's loop
\* before and after and leaves main where it stands
Resized == pc' = pc /\ pc # "loop"
\* every slot of every displayed channel holds the channel's baseline for `height`
AllBaselines(lines, height, count) ==
    /\ DOMAIN lines = 0 .. PLOT_CHANNELS - 1
    /\ \A i \in DOMAIN lines :
           /\ DOMAIN lines[i].y = 0 .. count - 1
           /\ \A j \in DOMAIN lines[i].y :
                  lines[i].y[j] = Rat(i * height, LAST_CHANNEL - FIRST_CHANNEL)

\* C11: after a resize to extent H every slot of every displayed channel's buffer
\* holds the channel's baseline for H, whatever the buffers held before; a resize to
\* the extent of buffers that are already fresh leaves them identical.
C11_ResizeRebuild ==
    [][Resized =>
           /\ AllBaselines(lineMeshes', viewHeight', sweepSampleCount)
           /\ (viewHeight' = viewHeight
               /\ AllBaselines(lineMeshes, viewHeight, sweepSampleCount))
                  => lineMeshes' = lineMeshes]_vars

\* samples have been drawn, the cursor is inside a sweep, and every slot is back at
\* the baseline of the largest extent: a resize has rebuilt the buffers
C11_Witness ==
    /\ pc = "idle" /\ consumed > 0 /\ currentSample > 0
    /\ RecordingHoldsSweep
    /\ viewHeight = MaxHeight
    /\ AllBaselines(lineMeshes, viewHeight, sweepSampleCount)

\* the value line i holds at slot j once sample `sample` of the recording is drawn there
Drawn(i, sample) ==
    RatAdd(lineMeshes[i].yOffset,
           RatMul(Read(dataArray, sample * CHANNELS + lineMeshes[i].actualChannel),
                  lineMeshes[i].amplitudeScale))

\* C13: each whole sample consumed writes slot `cursor`, and no other slot, of every
\* displayed channel's buffer (a lap clears nothing); a sample is consumed only
\* while at least 1 remains of the tick's advance count, so a tick whose count is
\* below 1 changes no slot, nor the cursor, nor windowStart.
C13_SlotWriteFrame ==
    [][/\ Advanced =>
              /\ RatGe(samplesRemaining, Num(1))
              /\ writes'[currentSample] = 1
              /\ \A i \in DOMAIN lineMeshes :
                     /\ DOMAIN lineMeshes'[i].y = DOMAIN lineMeshes[i].y
                     /\ lineMeshes'[i].y[currentSample] = Drawn(i, windowStartSample + currentSample)
                     /\ \A j \in DOMAIN lineMeshes[i].y \ {currentSample} :
                            lineMeshes'[i].y[j] = lineMeshes[i].y[j]
       /\ (TickBegins \/ TickEnds) =>
              /\ lineMeshes' = lineMeshes
              /\ currentSample' = currentSample
              /\ windowStartSample' = windowStartSample]_vars

\* inside the second sweep: slot 0 holds the second window's sample, the last slot
\* still the first window's
C13_Witness ==
    /\ pc = "loop" /\ RecordingHoldsSweep
    /\ windowStartSample = sweepSampleCount /\ currentSample = 1
    /\ \A i \in DOMAIN lineMeshes :
           /\ lineMeshes[i].y[0] = Drawn(i, windowStartSample)
           /\ lineMeshes[i].y[sweepSampleCount - 1] = Drawn(i, sweepSampleCount - 1)
           /\ lineMeshes[i].y[sweepSampleCount - 1] # lineMeshes[i].yOffset

\* C12: animate runs only once the raw samples and, with the overlay enabled, the
\* event arrays and the sample-time table are loaded, and it never runs when a
\* load has yielded no data.
C12_LoadThenTick ==
    Started =>
        /\ Length(dataArray) = totalSamples
        /\ totalSamples > 0
        /\ showSpikes =>
               /\ Length(spikeTimes) = NumSpikes
               /\ Length(spikeChannels) = NumSpikes
               /\ Length(sampleTimes) > 0

\* C14: once the sweep runs, under frames without end, each a positive time after
\* the one before, a lap (cursor reset to 0) eventually occurs, and again after
\* every lap.
C14_SweepLiveness == [](Started => <>(lapsInTick > 0))

====
